---- MODULE Spec2Model ----
(***************************************************************************)
(* Model of scripts/bump-version.py and scripts/generate-release-notes.py. *)
(* Text is a sequence of one-character strings, so that the regular        *)
(* expressions, the formatting and the parsing of the scripts are computed *)
(* character by character, as the scripts compute them.                    *)
(***************************************************************************)
EXTENDS Integers, Sequences, FiniteSets, TLC

VARIABLES
    \* ---- one run of bump-version.py main() ----
    pc,               \* position of main()
    manifest,         \* the Info.plist file on disk
    manifest0,        \* the Info.plist file as it was when the run started
    tag,              \* what `git describe --tags --abbrev=0` answers
    dry_run,          \* args.dry_run
    history,          \* what `git log from..to` answers (subjects)
    current_version,  \* main's current_version
    bump_type,        \* main's bump_type
    new_version,      \* main's new_version
    version_changed,  \* result['version_changed']
    writes,           \* number of times the manifest was opened for writing
    exit_code,        \* main's return value
    \* ---- one ReleaseNotesGenerator object ----
    commits,              \* self.commits
    categorized_commits,  \* self.categorized_commits (insertion-ordered dict)
    breaking_changes,     \* self.breaking_changes
    lines,                \* what the last call returned, if it was generate_markdown
    summary,              \* what the last call returned, if it was generate_summary_json
    calls,                \* number of categorize_commits calls so far
    \* ---- one SemanticVersion object and one bump of it ----
    v_input,          \* the string handed to SemanticVersion(...)
    v_version,        \* the object constructed (or Invalid)
    v_bump,           \* the BumpType handed to bump
    v_result,         \* what bump returned
    v_reparsed,       \* SemanticVersion(str(v_version))
    \* ---- one analyze_commit_message call ----
    c_message,        \* the message analysed
    c_result,         \* what analyze_commit_message returned
    \* ---- one determine_bump_type call ----
    a_commits,        \* the list get_commits answered
    a_result          \* what determine_bump_type returned

runVars == <<pc, manifest, manifest0, tag, dry_run, history, current_version,
             bump_type, new_version, version_changed, writes, exit_code>>
notesVars == <<commits, categorized_commits, breaking_changes, lines, summary, calls>>
versionVars == <<v_input, v_version, v_bump, v_result, v_reparsed>>
classifyVars == <<c_message, c_result>>
aggregateVars == <<a_commits, a_result>>
vars == <<runVars, notesVars, versionVars, classifyVars, aggregateVars>>

----------------------------------------------------------------------------
\* Bounds of the model.

\* longest commit list `git log` answers in a version-bump run
MaxCommits == 3
\* largest numeric component of a version string drawn as input
MaxComponent == 10
\* most categorize_commits calls on one ReleaseNotesGenerator
MaxCalls == 2
\* most commits categorized on one ReleaseNotesGenerator, over all calls
MaxCategorized == 2

----------------------------------------------------------------------------
\* Characters and text.

LowerCase == <<"a","b","c","d","e","f","g","h","i","j","k","l","m",
               "n","o","p","q","r","s","t","u","v","w","x","y","z">>
UpperCase == <<"A","B","C","D","E","F","G","H","I","J","K","L","M",
               "N","O","P","Q","R","S","T","U","V","W","X","Y","Z">>
Digits == <<"0","1","2","3","4","5","6","7","8","9">>

IsLower(c) == \E i \in DOMAIN LowerCase : LowerCase[i] = c
IsUpper(c) == \E i \in DOMAIN UpperCase : UpperCase[i] = c
IsAlpha(c) == IsLower(c) \/ IsUpper(c)
IsDigit(c) == \E i \in DOMAIN Digits : Digits[i] = c
IsSpace(c) == c \in {" ", "\t"}

upper_char(c) == IF IsLower(c) THEN UpperCase[CHOOSE i \in DOMAIN LowerCase : LowerCase[i] = c] ELSE c
lower_char(c) == IF IsUpper(c) THEN LowerCase[CHOOSE i \in DOMAIN UpperCase : UpperCase[i] = c] ELSE c
upper(s) == [i \in 1..Len(s) |-> upper_char(s[i])]
lower(s) == [i \in 1..Len(s) |-> lower_char(s[i])]

\* `sub in s`
Contains(s, sub) == \E i \in 1..(Len(s) - Len(sub) + 1) : SubSeq(s, i, i + Len(sub) - 1) = sub

\* s[i:]
From(s, i) == SubSeq(s, i, Len(s))

Min(S) == CHOOSE x \in S : \A y \in S : x <= y

\* the position after the longest run of digits / letters / blanks that starts at i
DigitsEnd(s, i) == Min({j \in i..(Len(s) + 1) : j = Len(s) + 1 \/ ~IsDigit(s[j])})
AlphaEnd(s, i) == Min({j \in i..(Len(s) + 1) : j = Len(s) + 1 \/ ~IsAlpha(s[j])})
SpaceEnd(s, i) == Min({j \in i..(Len(s) + 1) : j = Len(s) + 1 \/ ~IsSpace(s[j])})

At(s, i, c) == i <= Len(s) /\ s[i] = c

\* int(text) of a text of decimal digits
RECURSIVE int(_)
int(s) == IF s = <<>> THEN 0
          ELSE 10 * int(SubSeq(s, 1, Len(s) - 1))
               + ((CHOOSE i \in DOMAIN Digits : Digits[i] = s[Len(s)]) - 1)

\* str(n) of a non-negative integer
RECURSIVE str(_)
str(n) == IF n < 10 THEN <<Digits[n + 1]>>
          ELSE str(n \div 10) \o <<Digits[(n % 10) + 1]>>

----------------------------------------------------------------------------
\* BumpType

BumpType == {"major", "minor", "patch", "none"}

----------------------------------------------------------------------------
\* class SemanticVersion

\* an absent optional group (None); the regex group ([a-zA-Z0-9.-]+) is never empty
None == <<>>

\* the constructor raised ValueError
Invalid == [ok |-> FALSE, original |-> <<>>, major |-> 0, minor |-> 0, patch |-> 0,
            prerelease |-> None]

IsPrereleaseChar(c) == IsAlpha(c) \/ IsDigit(c) \/ c = "." \/ c = "-"

\* SemanticVersion.__init__: ^(\d+)\.(\d+)\.(\d+)(?:-([a-zA-Z0-9.-]+))?$
SemanticVersion(version_string) ==
    LET s == version_string
        e1 == DigitsEnd(s, 1)
        e2 == DigitsEnd(s, e1 + 1)
        e3 == DigitsEnd(s, e2 + 1)
        core == /\ e1 > 1 /\ At(s, e1, ".")
                /\ e2 > e1 + 1 /\ At(s, e2, ".")
                /\ e3 > e2 + 1
        tail == From(s, e3 + 1)
        pre == /\ At(s, e3, "-")
               /\ tail # <<>>
               /\ \A i \in DOMAIN tail : IsPrereleaseChar(tail[i])
    IN  IF core /\ (e3 = Len(s) + 1 \/ pre)
        THEN [ok |-> TRUE,
              original |-> s,
              major |-> int(SubSeq(s, 1, e1 - 1)),
              minor |-> int(SubSeq(s, e1 + 1, e2 - 1)),
              patch |-> int(SubSeq(s, e2 + 1, e3 - 1)),
              prerelease |-> IF e3 = Len(s) + 1 THEN None ELSE tail]
        ELSE Invalid

\* a __str__ that leaves the prerelease out
SemanticVersion_str_NoPrerelease(self) ==
    str(self.major) \o <<".">> \o str(self.minor) \o <<".">> \o str(self.patch)

\* SemanticVersion.__str__
SemanticVersion_str(self) ==
    LET base == str(self.major) \o <<".">> \o str(self.minor) \o <<".">> \o str(self.patch)
    IN  IF self.prerelease # None THEN base \o <<"-">> \o self.prerelease ELSE base

\* SemanticVersion.__eq__
SemanticVersion_eq(self, other) == SemanticVersion_str(self) = SemanticVersion_str(other)

\* a bump that forgets to reset the patch component on a minor bump
SemanticVersion_bump_KeepsPatch(self, bt) ==
    IF bt = "major" THEN SemanticVersion(str(self.major + 1) \o <<".", "0", ".", "0">>)
    ELSE IF bt = "minor"
    THEN SemanticVersion(str(self.major) \o <<".">> \o str(self.minor + 1) \o <<".">> \o str(self.patch))
    ELSE IF bt = "patch"
    THEN SemanticVersion(str(self.major) \o <<".">> \o str(self.minor) \o <<".">> \o str(self.patch + 1))
    ELSE SemanticVersion(SemanticVersion_str(self))

\* SemanticVersion.bump
SemanticVersion_bump(self, bt) ==
    IF bt = "major" THEN SemanticVersion(str(self.major + 1) \o <<".", "0", ".", "0">>)
    ELSE IF bt = "minor"
    THEN SemanticVersion(str(self.major) \o <<".">> \o str(self.minor + 1) \o <<".", "0">>)
    ELSE IF bt = "patch"
    THEN SemanticVersion(str(self.major) \o <<".">> \o str(self.minor) \o <<".">> \o str(self.patch + 1))
    ELSE SemanticVersion(SemanticVersion_str(self))

----------------------------------------------------------------------------
\* class CommitAnalyzer

\* the positions a match of (\([^)]*\))? that starts at i can end at: the group is
\* optional, and when it is taken it runs from "(" to the first ")"
ScopeEnds(s, i) ==
    {i} \cup (IF At(s, i, "(") /\ \E j \in (i + 1)..Len(s) : s[j] = ")"
              THEN {Min({j \in (i + 1)..Len(s) : s[j] = ")"}) + 1}
              ELSE {})

\* the positions a match of ^[a-zA-Z]+ can end at (the engine tries the longest first)
TypeEnds(s) == 2..AlphaEnd(s, 1)

\* re.match(r'^[a-zA-Z]+(\([^)]*\))?!:', message)
MatchBreakingHeader(message) ==
    \E k \in TypeEnds(message) : \E p \in ScopeEnds(message, k) :
        At(message, p, "!") /\ At(message, p + 1, ":")

\* re.match(r'^([a-zA-Z]+)(\([^)]*\))?:', message): the ends of group 1 that match
MatchHeader(message) ==
    {k \in TypeEnds(message) : \E p \in ScopeEnds(message, k) : At(message, p, ":")}

Max(S) == CHOOSE x \in S : \A y \in S : x >= y

BREAKING_CHANGE == <<"B","R","E","A","K","I","N","G"," ","C","H","A","N","G","E">>
BREAKING_HYPHEN_CHANGE == <<"B","R","E","A","K","I","N","G","-","C","H","A","N","G","E">>

PatchTypes == {<<"f","i","x">>, <<"p","e","r","f">>, <<"d","o","c","s">>, <<"s","t","y","l","e">>, <<"r","e","f","a","c","t","o","r">>, <<"t","e","s","t">>, <<"c","h","o","r","e">>, <<"c","i">>, <<"b","u","i","l","d">>}

\* an analyzer that looks at the commit type before the breaking markers
analyze_commit_message_TypeFirst(message) ==
    IF MatchHeader(message) # {}
          /\ lower(SubSeq(message, 1, Max(MatchHeader(message)) - 1)) = <<"f","e","a","t">>
    THEN "minor"
    ELSE IF \/ Contains(upper(message), BREAKING_CHANGE)
            \/ Contains(upper(message), BREAKING_HYPHEN_CHANGE)
            \/ MatchBreakingHeader(message)
    THEN "major"
    ELSE "patch"

\* an analyzer that gives no signal for a commit without a conventional header
analyze_commit_message_NoneForPlain(message) ==
    IF \/ Contains(upper(message), BREAKING_CHANGE)
       \/ Contains(upper(message), BREAKING_HYPHEN_CHANGE)
       \/ MatchBreakingHeader(message)
    THEN "major"
    ELSE IF MatchHeader(message) # {}
    THEN (IF lower(SubSeq(message, 1, Max(MatchHeader(message)) - 1)) = <<"f","e","a","t">>
          THEN "minor" ELSE "patch")
    ELSE "none"

\* CommitAnalyzer.analyze_commit_message
analyze_commit_message(message) ==
    IF \/ Contains(upper(message), BREAKING_CHANGE)
       \/ Contains(upper(message), BREAKING_HYPHEN_CHANGE)
       \/ MatchBreakingHeader(message)
    THEN "major"
    ELSE IF MatchHeader(message) # {}
    THEN LET commit_type == lower(SubSeq(message, 1, Max(MatchHeader(message)) - 1))
         IN  IF commit_type = <<"f","e","a","t">> THEN "minor"
             ELSE IF commit_type \in PatchTypes THEN "patch"
             ELSE "patch"
    ELSE "patch"

\* the body of the loop of determine_bump_type: max_bump after one more commit
TakeHighest(max_bump, bump) ==
    IF bump = "major" THEN "major"
    ELSE IF bump = "minor" /\ max_bump # "major" THEN "minor"
    ELSE IF bump = "patch" /\ max_bump = "none" THEN "patch"
    ELSE max_bump

\* the loop of determine_bump_type over commits[i..]
RECURSIVE BumpLoop(_, _, _)
BumpLoop(cs, i, max_bump) ==
    IF i > Len(cs) THEN max_bump
    ELSE BumpLoop(cs, i + 1, TakeHighest(max_bump, analyze_commit_message(cs[i])))

\* a determine_bump_type whose minor branch does not look at what it has so far
determine_bump_type_LastMinorWins(cs) ==
    LET RECURSIVE Loop(_, _)
        Loop(i, max_bump) ==
            IF i > Len(cs) THEN max_bump
            ELSE LET bump == analyze_commit_message(cs[i])
                 IN  Loop(i + 1, IF bump = "major" THEN "major"
                                 ELSE IF bump = "minor" THEN "minor"
                                 ELSE IF bump = "patch" /\ max_bump = "none" THEN "patch"
                                 ELSE max_bump)
    IN  IF cs = <<>> THEN "none" ELSE Loop(1, "none")

\* CommitAnalyzer.determine_bump_type, of the list get_commits answers
determine_bump_type(cs) ==
    IF cs = <<>> THEN "none" ELSE BumpLoop(cs, 1, "none")

----------------------------------------------------------------------------
\* Inputs: commit subjects and version strings.

\* every sequence over S of length at most n
SeqsUpTo(S, n) == UNION {[1..k -> S] : k \in 0..n}

\* the parts commit subjects are put together from
SubjectTypes == {<<"f","e","a","t">>, <<"F","E","A","T">>, <<"f","i","x">>, <<"w","i","p">>, <<"r","e","v","e","r","t">>, <<>>}
SubjectScopes == {<<>>, <<"(","a","p","i",")">>, <<"(","a">>}
SubjectBangs == {<<>>, <<"!">>}
SubjectColons == {<<>>, <<":">>}
SubjectTexts == {<<>>, <<" ","a","d","d">>, <<" ","B","R","E","A","K","I","N","G"," ","C","H","A","N","G","E">>, <<" ","B","r","e","a","k","i","n","g","-","c","h","a","n","g","e"," ","x">>}

\* get_commits strips every line and drops the empty ones
IsSubject(m) == m # <<>> /\ ~IsSpace(m[1]) /\ ~IsSpace(m[Len(m)])

Subjects ==
    {m \in {ty \o sc \o bg \o co \o tx :
              ty \in SubjectTypes, sc \in SubjectScopes, bg \in SubjectBangs,
              co \in SubjectColons, tx \in SubjectTexts} : IsSubject(m)}

\* the subjects the commit lists of a run are drawn from
M_feat == <<"f","e","a","t",":"," ","a","d","d"," ","l","o","g","i","n">>
M_fix == <<"f","i","x",":"," ","c","r","a","s","h"," ","o","n"," ","s","a","v","e">>
M_chore == <<"c","h","o","r","e",":"," ","u","p","d","a","t","e"," ","d","e","p","s">>
M_plain == <<"u","p","d","a","t","e"," ","r","e","a","d","m","e">>
M_featBang == <<"f","e","a","t","(","a","p","i",")","!",":"," ","r","e","m","o","v","e"," ","l","e","g","a","c","y"," ","e","n","d","p","o","i","n","t">>
M_featBreaking == <<"f","e","a","t",":"," ","n","e","w"," ","a","p","i"," ","B","R","E","A","K","I","N","G"," ","C","H","A","N","G","E">>
RunSubjects == {M_feat, M_fix, M_chore, M_plain, M_featBang, M_featBreaking}

CommitLists == SeqsUpTo(RunSubjects, MaxCommits)

\* version strings: valid ones, with leading zeros and prereleases, and invalid ones
Suffixes == {<<>>, <<"-","r","c",".","1">>, <<"-","0">>, <<"-">>, <<"-","a","_","b">>, <<".","4">>}
VersionStrings ==
    {a \o <<".">> \o b \o <<".">> \o c \o x :
        a \in {str(n) : n \in 0..MaxComponent} \cup {<<"0","1">>},
        b \in {<<"0">>, <<"9">>, <<"0","0","7">>},
        c \in {<<"0">>, <<"3">>, <<"9","9">>},
        x \in Suffixes}
    \cup {<<"1",".","0">>, <<"v","1",".","2",".","3">>, <<>>, <<"1",".",".","2">>}

----------------------------------------------------------------------------
\* The idle values of the parts a specification does not run.

IdleRun ==
    /\ pc = "idle" /\ manifest = <<>> /\ manifest0 = <<>> /\ tag = <<>>
    /\ dry_run = FALSE /\ history = <<>> /\ current_version = Invalid
    /\ bump_type = "unset" /\ new_version = Invalid /\ version_changed = FALSE
    /\ writes = 0 /\ exit_code = -1
\* no summary was returned
NoSummary ==
    [version |-> <<>>, from_ref |-> <<>>, to_ref |-> <<>>, total_commits |-> -1,
     categories |-> <<>>, commit_counts |-> <<>>, breaking_changes |-> -1]
IdleNotes ==
    /\ commits = <<>> /\ categorized_commits = <<>> /\ breaking_changes = <<>>
    /\ lines = <<>> /\ summary = NoSummary /\ calls = 0
IdleVersion ==
    /\ v_input = <<>> /\ v_version = Invalid /\ v_bump = "unset"
    /\ v_result = Invalid /\ v_reparsed = Invalid
IdleClassify == c_message = <<>> /\ c_result = "unset"
IdleAggregate == a_commits = <<>> /\ a_result = "unset"

----------------------------------------------------------------------------
\* SemanticVersion: construct one from a string, bump it, print and re-read it.

InitVersion ==
    /\ v_input \in VersionStrings
    /\ v_version = SemanticVersion(v_input)
    /\ v_bump = "unset" /\ v_result = Invalid /\ v_reparsed = Invalid
    /\ IdleRun /\ IdleNotes /\ IdleClassify /\ IdleAggregate

\* v_version.bump(bt)
Bump ==
    /\ v_version.ok /\ v_bump = "unset"
    /\ \E bt \in BumpType :
          /\ v_bump' = bt
          /\ v_result' = SemanticVersion_bump(v_version, bt)
    /\ UNCHANGED <<v_input, v_version, v_reparsed>>
    /\ UNCHANGED <<runVars, notesVars, classifyVars, aggregateVars>>

\* SemanticVersion(str(v_version))
Reparse ==
    /\ v_version.ok /\ ~v_reparsed.ok
    /\ v_reparsed' = SemanticVersion(SemanticVersion_str(v_version))
    /\ UNCHANGED <<v_input, v_version, v_bump, v_result>>
    /\ UNCHANGED <<runVars, notesVars, classifyVars, aggregateVars>>

NextVersion == Bump \/ Reparse
SpecVersion == InitVersion /\ [][NextVersion]_vars

----------------------------------------------------------------------------
\* CommitAnalyzer.analyze_commit_message of one subject.

InitClassify ==
    /\ c_message \in Subjects
    /\ c_result = "unset"
    /\ IdleRun /\ IdleNotes /\ IdleVersion /\ IdleAggregate

Analyze ==
    /\ c_result = "unset"
    /\ c_result' = analyze_commit_message(c_message)
    /\ UNCHANGED c_message
    /\ UNCHANGED <<runVars, notesVars, versionVars, aggregateVars>>

NextClassify == Analyze
SpecClassify == InitClassify /\ [][NextClassify]_vars

----------------------------------------------------------------------------
\* CommitAnalyzer.determine_bump_type of one commit list.

InitAggregate ==
    /\ a_commits \in CommitLists
    /\ a_result = "unset"
    /\ IdleRun /\ IdleNotes /\ IdleVersion /\ IdleClassify

DetermineBumpType ==
    /\ a_result = "unset"
    /\ a_result' = determine_bump_type(a_commits)
    /\ UNCHANGED a_commits
    /\ UNCHANGED <<runVars, notesVars, versionVars, classifyVars>>

NextAggregate == DetermineBumpType
SpecAggregate == InitAggregate /\ [][NextAggregate]_vars

----------------------------------------------------------------------------
\* Severity order of BumpType: major > minor > patch > none.

Rank(b) == CASE b = "major" -> 3 [] b = "minor" -> 2 [] b = "patch" -> 1 [] OTHER -> 0

\* the most severe of the per-commit decisions of a list, none for the empty list
MaxSeverity(cs) ==
    CHOOSE b \in BumpType :
        Rank(b) = Max({0} \cup {Rank(analyze_commit_message(cs[i])) : i \in DOMAIN cs})

\* cs rearranged by the permutation f of its positions
Permuted(cs, f) == [i \in DOMAIN cs |-> cs[f[i]]]
Rearrangements(n) == {f \in [1..n -> 1..n] : \A i, j \in 1..n : f[i] = f[j] => i = j}

\* cs with a copy of its entry i inserted after position j
Duplicated(cs, i, j) == SubSeq(cs, 1, j) \o <<cs[i]>> \o SubSeq(cs, j + 1, Len(cs))

\* C1: determine_bump_type returns the maximum severity of analyze_commit_message
\* over the commit list, and returns the same for every permutation of the list and
\* for every list obtained from it by duplicating an entry.
C1_MaxSeverityOrderIndependent ==
    a_result # "unset" =>
        /\ a_result = MaxSeverity(a_commits)
        /\ \A f \in Rearrangements(Len(a_commits)) :
              determine_bump_type(Permuted(a_commits, f)) = a_result
        /\ \A i \in DOMAIN a_commits : \A j \in 0..Len(a_commits) :
              determine_bump_type(Duplicated(a_commits, i, j)) = a_result

\* a breaking commit first, a feature and a fix after it: the result is still major
C1_Witness ==
    /\ a_commits = <<M_featBang, M_feat, M_fix>>
    /\ a_result = "major"

\* C9: determine_bump_type returns none exactly when the commit list is empty; every
\* non-empty list gives patch, minor or major, and analyze_commit_message gives none
\* for no message of the list.
C9_NoneIffEmpty ==
    a_result # "unset" =>
        /\ (a_result = "none") <=> (a_commits = <<>>)
        /\ a_result \in BumpType
        /\ \A i \in DOMAIN a_commits :
              analyze_commit_message(a_commits[i]) \in {"patch", "minor", "major"}

\* a list of one commit without a conventional header still asks for a patch
C9_Witness ==
    /\ a_commits = <<M_plain>>
    /\ a_result = "patch"

----------------------------------------------------------------------------
\* Breaking markers of a commit subject, read off the subject itself.

\* m holds the lower-case text marker, whatever the case of m's letters
HoldsIgnoringCase(m, marker) ==
    \E i \in 1..Len(m) :
        /\ i + Len(marker) - 1 <= Len(m)
        /\ \A j \in 1..Len(marker) : lower_char(m[i + j - 1]) = marker[j]

\* m starts with letters, then an optional (scope) without ")" inside, then "!:"
BangBeforeColon(m) ==
    \E n \in 1..Len(m) :
        /\ \A i \in 1..n : IsAlpha(m[i])
        /\ \/ At(m, n + 1, "!") /\ At(m, n + 2, ":")
           \/ /\ At(m, n + 1, "(")
              /\ \E j \in (n + 2)..Len(m) :
                    /\ m[j] = ")"
                    /\ \A k \in (n + 2)..(j - 1) : m[k] # ")"
                    /\ At(m, j + 1, "!") /\ At(m, j + 2, ":")

HasBreakingMarker(m) ==
    \/ HoldsIgnoringCase(m, <<"b","r","e","a","k","i","n","g"," ","c","h","a","n","g","e">>)
    \/ HoldsIgnoringCase(m, <<"b","r","e","a","k","i","n","g","-","c","h","a","n","g","e">>)
    \/ BangBeforeColon(m)

\* C7: a message that holds BREAKING CHANGE or BREAKING-CHANGE in any case, or has "!"
\* before the colon of its conventional header, is classified major, whatever its
\* type; it is never classified minor or patch.
C7_BreakingMarkerIsMajor ==
    (c_result # "unset" /\ HasBreakingMarker(c_message)) => c_result = "major"

\* a feat commit that also carries a breaking marker was classified major
C7_Witness ==
    /\ c_message = <<"f","e","a","t",":"," ","B","R","E","A","K","I","N","G"," ","C","H","A","N","G","E">>
    /\ c_result = "major"

----------------------------------------------------------------------------
\* SemanticVersion.bump against the reference of semantic versioning.

\* C8: bump gives (major+1).0.0 for major, major.(minor+1).0 for minor and
\* major.minor.(patch+1) for patch, each without prerelease; for none it gives a value
\* equal to the version bumped, prerelease included.
C8_BumpAgreesWithReference ==
    v_bump # "unset" =>
        /\ v_result.ok
        /\ v_bump = "major" =>
              /\ v_result.major = v_version.major + 1
              /\ v_result.minor = 0 /\ v_result.patch = 0
              /\ v_result.prerelease = None
        /\ v_bump = "minor" =>
              /\ v_result.major = v_version.major
              /\ v_result.minor = v_version.minor + 1
              /\ v_result.patch = 0
              /\ v_result.prerelease = None
        /\ v_bump = "patch" =>
              /\ v_result.major = v_version.major
              /\ v_result.minor = v_version.minor
              /\ v_result.patch = v_version.patch + 1
              /\ v_result.prerelease = None
        /\ v_bump = "none" =>
              /\ v_result.major = v_version.major
              /\ v_result.minor = v_version.minor
              /\ v_result.patch = v_version.patch
              /\ v_result.prerelease = v_version.prerelease
              /\ SemanticVersion_eq(v_result, v_version)

\* a minor bump of a prerelease version with a non-zero patch component
C8_Witness ==
    /\ v_bump = "minor"
    /\ v_version.patch = 99 /\ v_version.prerelease = <<"r","c",".","1">>
    /\ v_result.minor = v_version.minor + 1
    /\ v_result.patch = 0 /\ v_result.prerelease = None

----------------------------------------------------------------------------
\* class VersionManager: the manifest (Info.plist) and the tags.

\* the manifest file: absent, unreadable as a plist, or a plist with its two keys
Manifest(kind, has_version, version, has_build, build) ==
    [kind |-> kind, has_version |-> has_version, version |-> version,
     has_build |-> has_build, build |-> build]
AbsentManifest == Manifest("absent", FALSE, <<>>, FALSE, <<>>)
CorruptManifest == Manifest("corrupt", FALSE, <<>>, FALSE, <<>>)

ManifestFiles ==
    { AbsentManifest,
      CorruptManifest,
      Manifest("plist", TRUE, <<"1",".","2",".","3">>, TRUE, <<"7">>),
      Manifest("plist", TRUE, <<"1",".","0">>, TRUE, <<"b","1">>),
      Manifest("plist", TRUE, <<"0","1",".","2",".","3">>, TRUE, <<"0","9">>),
      Manifest("plist", TRUE, <<"2",".","0",".","0","-","r","c","1">>, FALSE, <<>>),
      Manifest("plist", TRUE, <<"x">>, TRUE, <<"7">>),
      Manifest("plist", FALSE, <<>>, FALSE, <<>>) }

\* the answer of `git describe --tags --abbrev=0`: a tag, or CalledProcessError
Tag(exists, name) == [exists |-> exists, name |-> name]
NoTag == Tag(FALSE, <<>>)
Tags == {NoTag, Tag(TRUE, <<"v","0",".","3",".","1">>), Tag(TRUE, <<"2",".","0",".","0">>), Tag(TRUE, <<"r","e","l">>)}

\* version_string.split('.')
RECURSIVE split(_, _)
split(s, sep) ==
    IF \E i \in DOMAIN s : s[i] = sep
    THEN LET i == Min({j \in DOMAIN s : s[j] = sep})
         IN  <<SubSeq(s, 1, i - 1)>> \o split(From(s, i + 1), sep)
    ELSE <<s>>

\* '.'.join(parts)
RECURSIVE join(_, _)
join(parts, sep) ==
    IF parts = <<>> THEN <<>>
    ELSE IF Len(parts) = 1 THEN parts[1]
    ELSE parts[1] \o <<sep>> \o join(Tail(parts), sep)

\* while len(parts) < 3: parts.append('0')
RECURSIVE PadParts(_)
PadParts(parts) == IF Len(parts) < 3 THEN PadParts(Append(parts, <<"0">>)) ELSE parts

\* re.match(r'^\d+\.\d+\.\d+', version_string)
MatchVersionPrefix(s) ==
    LET e1 == DigitsEnd(s, 1)
        e2 == DigitsEnd(s, e1 + 1)
        e3 == DigitsEnd(s, e2 + 1)
    IN  /\ e1 > 1 /\ At(s, e1, ".")
        /\ e2 > e1 + 1 /\ At(s, e2, ".")
        /\ e3 > e2 + 1

\* get_current_version, the Info.plist part: the version read, Invalid when the file
\* does not load or the string is no semantic version (the except branch)
VersionFromPlist(m) ==
    IF m.kind # "plist" THEN Invalid
    ELSE LET version_string == IF m.has_version THEN m.version ELSE <<"0",".","0",".","0">>
         IN  SemanticVersion(IF MatchVersionPrefix(version_string)
                             THEN version_string
                             ELSE join(SubSeq(PadParts(split(version_string, ".")), 1, 3), "."))

\* get_current_version, the git part: Invalid when SemanticVersion raises
VersionFromTags(tg) ==
    IF ~tg.exists THEN SemanticVersion(<<"0",".","0",".","0">>)
    ELSE SemanticVersion(IF At(tg.name, 1, "v") THEN Tail(tg.name) ELSE tg.name)

\* a get_current_version that starts a history without tags from 0.0.1
get_current_version_StartsAtOne(m, tg) ==
    IF m.kind # "absent" /\ VersionFromPlist(m).ok THEN VersionFromPlist(m)
    ELSE IF ~tg.exists THEN SemanticVersion(<<"0",".","0",".","1">>)
    ELSE VersionFromTags(tg)

\* VersionManager.get_current_version
get_current_version(m, tg) ==
    IF m.kind # "absent" /\ VersionFromPlist(m).ok THEN VersionFromPlist(m)
    ELSE VersionFromTags(tg)

\* int(current_build) succeeds
IsNumber(s) == s # <<>> /\ \A i \in DOMAIN s : IsDigit(s[i])

\* VersionManager.update_info_plist: the plist that is dumped
update_info_plist(m, version) ==
    LET current_build == IF m.has_build THEN m.build ELSE <<"1">>
    IN  [m EXCEPT !.has_version = TRUE,
                  !.version = SemanticVersion_str(version),
                  !.has_build = IF IsNumber(current_build) THEN TRUE ELSE @,
                  !.build = IF IsNumber(current_build) THEN str(int(current_build) + 1) ELSE @]

----------------------------------------------------------------------------
\* One run of main() of bump-version.py.

InitRun ==
    /\ pc = "start"
    /\ manifest \in ManifestFiles
    /\ manifest0 = manifest
    /\ tag \in Tags
    /\ dry_run \in BOOLEAN
    /\ history = <<>>
    /\ current_version = Invalid
    /\ bump_type = "unset"
    /\ new_version = Invalid
    /\ version_changed = FALSE
    /\ writes = 0
    /\ exit_code = -1
    /\ IdleNotes /\ IdleVersion /\ IdleClassify /\ IdleAggregate

Exit(code) == pc' = "done" /\ exit_code' = code

\* main: determine from_ref (given, the last tag, or the first commit)
Main_ResolveFromRef ==
    /\ pc = "start"
    /\ \E given \in BOOLEAN, has_root \in BOOLEAN :
          IF ~given /\ ~tag.exists /\ ~has_root
          THEN Exit(1)
          ELSE pc' = "version" /\ UNCHANGED exit_code
    /\ UNCHANGED <<manifest, manifest0, tag, dry_run, history, current_version,
                   bump_type, new_version, version_changed, writes>>
    /\ UNCHANGED <<notesVars, versionVars, classifyVars, aggregateVars>>

\* main: current_version = version_manager.get_current_version()
Main_GetCurrentVersion ==
    /\ pc = "version"
    /\ LET v == get_current_version(manifest, tag)
       IN  IF v.ok
           THEN current_version' = v /\ pc' = "analyze" /\ UNCHANGED exit_code
           ELSE Exit(1) /\ UNCHANGED current_version
    /\ UNCHANGED <<manifest, manifest0, tag, dry_run, history,
                   bump_type, new_version, version_changed, writes>>
    /\ UNCHANGED <<notesVars, versionVars, classifyVars, aggregateVars>>

\* main: bump_type = analyzer.determine_bump_type(); git log answers or fails
Main_DetermineBumpType ==
    /\ pc = "analyze"
    /\ \/ \E cs \in CommitLists :
             /\ history' = cs
             /\ bump_type' = determine_bump_type(cs)
             /\ pc' = "compute"
             /\ UNCHANGED exit_code
       \/ Exit(1) /\ UNCHANGED <<history, bump_type>>
    /\ UNCHANGED <<manifest, manifest0, tag, dry_run, current_version,
                   new_version, version_changed, writes>>
    /\ UNCHANGED <<notesVars, versionVars, classifyVars, aggregateVars>>

\* main: new_version = current_version.bump(bump_type) and the result record
Main_ComputeNewVersion ==
    /\ pc = "compute"
    /\ \/ /\ new_version' = SemanticVersion_bump(current_version, bump_type)
          /\ version_changed' =
                (SemanticVersion_str(current_version)
                    # SemanticVersion_str(SemanticVersion_bump(current_version, bump_type)))
          /\ pc' = "apply"
          /\ UNCHANGED exit_code
       \/ /\ new_version' = SemanticVersion_bump(current_version, bump_type)
          /\ Exit(1)
          /\ UNCHANGED version_changed
    /\ UNCHANGED <<manifest, manifest0, tag, dry_run, history, current_version,
                   bump_type, writes>>
    /\ UNCHANGED <<notesVars, versionVars, classifyVars, aggregateVars>>

\* a main that updates the manifest whether or not --dry-run was given
Main_Apply_IgnoresDryRun ==
    /\ pc = "apply"
    /\ IF version_changed /\ manifest.kind = "plist"
       THEN /\ manifest' = update_info_plist(manifest, new_version)
            /\ writes' = writes + 1
            /\ Exit(0)
       ELSE Exit(IF version_changed /\ ~dry_run THEN 1 ELSE 0) /\ UNCHANGED <<manifest, writes>>
    /\ UNCHANGED <<manifest0, tag, dry_run, history, current_version,
                   bump_type, new_version, version_changed>>
    /\ UNCHANGED <<notesVars, versionVars, classifyVars, aggregateVars>>

\* main: the dry-run report, or version_manager.update_info_plist(new_version), then
\* the JSON record; the exit status
Main_Apply ==
    /\ pc = "apply"
    /\ IF ~dry_run /\ version_changed
       THEN IF manifest.kind # "plist"
            THEN \* the file is missing or does not load: update_info_plist is False
                 Exit(1) /\ UNCHANGED <<manifest, writes>>
            ELSE \/ \* the plist is dumped
                    /\ manifest' = update_info_plist(manifest, new_version)
                    /\ writes' = writes + 1
                    /\ \E json_written \in BOOLEAN : Exit(IF json_written THEN 0 ELSE 1)
                 \/ \* the file cannot be opened for writing
                    Exit(1) /\ UNCHANGED <<manifest, writes>>
                 \/ \* the dump fails after the file was truncated
                    /\ manifest' = CorruptManifest
                    /\ writes' = writes + 1
                    /\ Exit(1)
       ELSE /\ \E json_written \in BOOLEAN : Exit(IF json_written THEN 0 ELSE 1)
            /\ UNCHANGED <<manifest, writes>>
    /\ UNCHANGED <<manifest0, tag, dry_run, history, current_version,
                   bump_type, new_version, version_changed>>
    /\ UNCHANGED <<notesVars, versionVars, classifyVars, aggregateVars>>

Next ==
    \/ Main_ResolveFromRef
    \/ Main_GetCurrentVersion
    \/ Main_DetermineBumpType
    \/ Main_ComputeNewVersion
    \/ Main_Apply

Spec == InitRun /\ [][Next]_vars

----------------------------------------------------------------------------
\* The version-bump run: the default version and the writes of the manifest.

\* the range holds one commit, a `feat:` commit without breaking marker
SingleFeatCommit(cs) ==
    /\ Len(cs) = 1
    /\ SubSeq(cs[1], 1, 5) = <<"f","e","a","t",":">>
    /\ ~HasBreakingMarker(cs[1])

\* what the run makes of a single feat commit on top of 0.0.0
FromZeroToMinor ==
    /\ SemanticVersion_str(current_version) = <<"0",".","0",".","0">>
    /\ (SingleFeatCommit(history) /\ new_version.ok) =>
          /\ bump_type = "minor"
          /\ SemanticVersion_str(new_version) = <<"0",".","1",".","0">>

\* C5 as stated: with the manifest file absent the run takes 0.0.0 as the current
\* version, whatever tags the history holds, and a single feat commit gives 0.1.0.
C5_AbsentManifestIsZero ==
    (manifest0.kind = "absent" /\ current_version.ok) => FromZeroToMinor

\* C5: with the manifest file absent and no tag in the history, the run takes 0.0.0
\* as the current version, and a range with a single feat commit (no breaking marker)
\* gives bump type minor and new version 0.1.0.
C5_AbsentManifestNoTagIsZero ==
    (manifest0.kind = "absent" /\ ~tag.exists /\ current_version.ok) => FromZeroToMinor

\* no manifest, no tag, one feat commit: the run computed 0.1.0
C5_Witness ==
    /\ manifest0.kind = "absent" /\ ~tag.exists
    /\ history = <<M_feat>>
    /\ pc = "done"
    /\ bump_type = "minor"
    /\ SemanticVersion_str(new_version) = <<"0",".","1",".","0">>

\* C6: a run writes the manifest at most once; with --dry-run, or with an empty commit
\* range (bump type none, version_changed false), the manifest is left as it was; a
\* write happens only with dry-run off and a new version string that differs from the
\* current one.
C6_ManifestWrittenOnlyOnChange ==
    /\ writes <= 1
    /\ manifest # manifest0 => writes = 1
    /\ (bump_type # "unset" /\ history = <<>>) =>
          /\ bump_type = "none"
          /\ ~version_changed
          /\ new_version.ok => SemanticVersion_eq(new_version, current_version)
    /\ (dry_run \/ (bump_type # "unset" /\ history = <<>>)) =>
          manifest = manifest0 /\ writes = 0
    /\ writes = 1 =>
          /\ ~dry_run
          /\ version_changed
          /\ SemanticVersion_str(new_version) # SemanticVersion_str(current_version)

\* a dry run that found a new version and ended with the manifest as it was
C6_Witness ==
    /\ pc = "done" /\ dry_run /\ version_changed
    /\ manifest0.kind = "plist"
    /\ manifest = manifest0 /\ writes = 0

----------------------------------------------------------------------------
\* class ReleaseNotesGenerator

\* CATEGORIES, in the order of the dict (the labels without their emoji)
Category(key, label) == [key |-> key, label |-> label]
CATEGORIES ==
    << Category(<<"f","e","a","t">>, <<"N","e","w"," ","F","e","a","t","u","r","e","s">>),
       Category(<<"f","i","x">>, <<"B","u","g"," ","F","i","x","e","s">>),
       Category(<<"d","o","c","s">>, <<"D","o","c","u","m","e","n","t","a","t","i","o","n">>),
       Category(<<"s","t","y","l","e">>, <<"C","o","d","e"," ","S","t","y","l","e">>),
       Category(<<"r","e","f","a","c","t","o","r">>, <<"C","o","d","e"," ","R","e","f","a","c","t","o","r","i","n","g">>),
       Category(<<"t","e","s","t">>, <<"T","e","s","t","s">>),
       Category(<<"c","h","o","r","e">>, <<"M","a","i","n","t","e","n","a","n","c","e">>),
       Category(<<"c","i">>, <<"C","I","/","C","D">>),
       Category(<<"p","e","r","f">>, <<"P","e","r","f","o","r","m","a","n","c","e">>),
       Category(<<"b","u","i","l","d">>, <<"B","u","i","l","d"," ","S","y","s","t","e","m">>),
       Category(<<"r","e","v","e","r","t">>, <<"R","e","v","e","r","t","s">>) >>

\* self.CATEGORIES[commit_type]
CategoryLabel(key) == CATEGORIES[CHOOSE i \in DOMAIN CATEGORIES : CATEGORIES[i].key = key].label

OtherKey == <<"o","t","h","e","r">>
OtherLabel == <<"O","t","h","e","r"," ","C","h","a","n","g","e","s">>

\* category_order of generate_markdown
category_order ==
    << <<"f","e","a","t">>, <<"f","i","x">>, <<"p","e","r","f">>, <<"d","o","c","s">>, <<"r","e","f","a","c","t","o","r">>, <<"t","e","s","t">>,
       <<"c","i">>, <<"b","u","i","l","d">>, <<"c","h","o","r","e">>, <<"s","t","y","l","e">>, <<"r","e","v","e","r","t">> >>

\* the constructor's from_ref and to_ref, and the clock's answers
from_ref == <<"v","1",".","0",".","0">>
to_ref == <<"H","E","A","D">>
Today == <<"2","0","2","6","-","0","1","-","0","1">>
Now == <<"2","0","2","6","-","0","1","-","0","1"," ","1","2",":","0","0",":","0","0"," ">>

\* an insertion-ordered dict from keys to lists: a sequence of [key, items]
HasKey(d, key) == \E i \in DOMAIN d : d[i].key = key
Items(d, key) == d[CHOOSE i \in DOMAIN d : d[i].key = key].items
DictAppend(d, key, item) ==
    IF HasKey(d, key)
    THEN [i \in DOMAIN d |-> IF d[i].key = key
                             THEN [d[i] EXCEPT !.items = Append(@, item)]
                             ELSE d[i]]
    ELSE Append(d, [key |-> key, items |-> <<item>>])

\* parse_conventional_commit: ^([a-zA-Z]+)(\([^)]*\))?(!)?:\s*(.*)$
\* the matches <<end of group 1, end of group 2, position of the colon>>
HeaderMatches(message) ==
    UNION {UNION {{<<k, p, q>> : q \in {c \in {p, p + 1} :
                                       /\ At(message, c, ":")
                                       /\ c = p \/ At(message, p, "!")}}
                  : p \in ScopeEnds(message, k)}
           : k \in TypeEnds(message)}

\* the match the engine finds: the longest group 1, then the longest group 2
FirstMatch(message) ==
    CHOOSE m \in HeaderMatches(message) :
        \A o \in HeaderMatches(message) :
            m[1] > o[1] \/ (m[1] = o[1] /\ m[2] >= o[2])

parse_conventional_commit(message) ==
    IF HeaderMatches(message) # {}
    THEN LET m == FirstMatch(message)
             commit_type == SubSeq(message, 1, m[1] - 1)
             scope == SubSeq(message, m[1], m[2] - 1)
             breaking == m[3] = m[2] + 1
             description == From(message, SpaceEnd(message, m[3] + 1))
             scope_display == IF scope # <<>>
                              THEN SubSeq(scope, 2, Len(scope) - 1) \o <<":"," ">>
                              ELSE <<>>
         IN  [type |-> commit_type, formatted |-> scope_display \o description,
              breaking |-> breaking]
    ELSE [type |-> OtherKey, formatted |-> message, breaking |-> FALSE]

\* the loop of categorize_commits over self.commits[i..]; a commit is <<hash, message>>
RECURSIVE CategorizeLoop(_, _, _, _)
CategorizeLoop(cs, i, categorized, breaking) ==
    IF i > Len(cs) THEN [categorized |-> categorized, breaking |-> breaking]
    ELSE LET message == cs[i][2]
             parsed == parse_conventional_commit(message)
         IN  CategorizeLoop(cs, i + 1,
                 DictAppend(categorized, parsed.type, parsed.formatted),
                 IF parsed.breaking \/ Contains(message, BREAKING_CHANGE)
                 THEN Append(breaking, parsed.formatted)
                 ELSE breaking)

\* a categorize_commits that looks for BREAKING CHANGE in any case, as the analyzer does
categorize_commits_AnyCase(cs, categorized, breaking) ==
    LET RECURSIVE Loop(_, _, _)
        Loop(i, cat, brk) ==
            IF i > Len(cs) THEN [categorized |-> cat, breaking |-> brk]
            ELSE LET message == cs[i][2]
                     parsed == parse_conventional_commit(message)
                 IN  Loop(i + 1,
                          DictAppend(cat, parsed.type, parsed.formatted),
                          IF parsed.breaking \/ Contains(upper(message), BREAKING_CHANGE)
                          THEN Append(brk, parsed.formatted)
                          ELSE brk)
    IN  Loop(1, categorized, breaking)

\* categorize_commits: the buckets and the breaking list after the commits cs that
\* get_commits answered, starting from the buckets and the list the object holds
categorize_commits(cs, categorized, breaking) == CategorizeLoop(cs, 1, categorized, breaking)

\* lines.append(f"- {x}") for x in items
ListLines(items) == [i \in DOMAIN items |-> <<"-"," ">> \o items[i]]

\* the lines of one subsection of Changes
Subsection(label, items) == <<<<"#","#","#"," ">> \o label, <<>>>> \o ListLines(items) \o <<<<>>>>

\* the loop over category_order[i..]
RECURSIVE ChangesLoop(_, _)
ChangesLoop(categorized, i) ==
    IF i > Len(category_order) THEN <<>>
    ELSE (IF HasKey(categorized, category_order[i])
          THEN Subsection(CategoryLabel(category_order[i]), Items(categorized, category_order[i]))
          ELSE <<>>)
         \o ChangesLoop(categorized, i + 1)

\* a summary loop that walks category_order, as the Changes section does
SummaryLoop_ByImportance(categorized, i) ==
    LET RECURSIVE Loop(_)
        Loop(k) ==
            IF k > Len(category_order) THEN <<>>
            ELSE (IF HasKey(categorized, category_order[k])
                  THEN << <<"-"," ">> \o CategoryLabel(category_order[k]) \o <<":"," ">>
                          \o str(Len(Items(categorized, category_order[k]))) \o <<" ","c","o","m","m","i","t","s">> >>
                  ELSE <<>>)
                 \o Loop(k + 1)
    IN  Loop(i)

\* the loop of the summary over CATEGORIES[i..]
RECURSIVE SummaryLoop(_, _)
SummaryLoop(categorized, i) ==
    IF i > Len(CATEGORIES) THEN <<>>
    ELSE (IF HasKey(categorized, CATEGORIES[i].key)
          THEN << <<"-"," ">> \o CATEGORIES[i].label \o <<":"," ">>
                  \o str(Len(Items(categorized, CATEGORIES[i].key))) \o <<" ","c","o","m","m","i","t","s">> >>
          ELSE <<>>)
         \o SummaryLoop(categorized, i + 1)

\* generate_markdown after its categorize_commits call: the lines joined by '\n'
generate_markdown(version, github_format, cs, categorized, breaking) ==
    (IF ~github_format
     THEN << IF version # None THEN <<"#"," ","R","e","l","e","a","s","e"," ","N","o","t","e","s"," ","-"," ","v">> \o version
                                ELSE <<"#"," ","R","e","l","e","a","s","e"," ","N","o","t","e","s"," ","-"," ">> \o Today,
             <<>>,
             <<"_","G","e","n","e","r","a","t","e","d"," ","f","r","o","m"," ","c","o","m","m","i","t","s"," ">> \o from_ref \o <<".",".">> \o to_ref \o <<"_">>,
             <<>>,
             <<"#","#"," ","S","u","m","m","a","r","y">>,
             <<>>,
             <<"*","*">> \o str(Len(cs)) \o <<" ","c","o","m","m","i","t","s","*","*"," ","a","c","r","o","s","s"," ">> \o str(Len(categorized))
                 \o <<" ","c","a","t","e","g","o","r","i","e","s",":">>,
             <<>> >>
          \o SummaryLoop(categorized, 1)
          \o (IF HasKey(categorized, OtherKey)
              THEN << <<"-"," ">> \o OtherLabel \o <<":"," ">> \o str(Len(Items(categorized, OtherKey)))
                      \o <<" ","c","o","m","m","i","t","s">> >>
              ELSE <<>>)
          \o << <<>> >>
     ELSE <<>>)
    \o (IF breaking # <<>>
        THEN <<<<"#","#"," ","B","R","E","A","K","I","N","G"," ","C","H","A","N","G","E","S">>, <<>>>> \o ListLines(breaking) \o << <<>> >>
        ELSE <<>>)
    \o <<<<"#","#"," ","C","h","a","n","g","e","s">>, <<>>>>
    \o ChangesLoop(categorized, 1)
    \o (IF HasKey(categorized, OtherKey)
        THEN Subsection(OtherLabel, Items(categorized, OtherKey))
        ELSE <<>>)
    \o (IF ~github_format
        THEN <<<<"-","-","-">>, <<>>, <<"_","G","e","n","e","r","a","t","e","d"," ","o","n"," ">> \o Now \o <<"_">>>>
             \o (IF version # None THEN <<<<"_","V","e","r","s","i","o","n",":"," ">> \o version \o <<"_">>>> ELSE <<>>)
        ELSE <<>>)

\* generate_summary_json (without generated_at)
generate_summary_json(version, cs, categorized, breaking) ==
    [version |-> IF version # None THEN version ELSE <<"u","n","k","n","o","w","n">>,
     from_ref |-> from_ref,
     to_ref |-> to_ref,
     total_commits |-> Len(cs),
     categories |-> [i \in DOMAIN categorized |-> categorized[i].key],
     commit_counts |-> [i \in DOMAIN categorized |->
                           [key |-> categorized[i].key, count |-> Len(categorized[i].items)]],
     breaking_changes |-> Len(breaking)]

----------------------------------------------------------------------------
\* One ReleaseNotesGenerator object and the calls made on it.

N_featBang == M_featBang
N_feat == M_feat
N_perf == <<"p","e","r","f",":"," ","B","R","E","A","K","I","N","G"," ","C","H","A","N","G","E">>
N_docs == <<"d","o","c","s",":"," ","b","r","e","a","k","i","n","g"," ","c","h","a","n","g","e">>
N_Fix == <<"F","i","x",":"," ","c","r","a","s","h"," ","o","n"," ","s","a","v","e">>
N_plain == M_plain
NotesSubjects == {N_featBang, N_feat, N_perf, N_docs, N_Fix, N_plain}

\* what get_commits answers: <<hash, subject>> pairs
NotesCommits == {<<<<"c","0","f","f","e","e">>, m>> : m \in NotesSubjects}

VersionLabels == {None, <<"1",".","1",".","0">>}

RECURSIVE SumSizes(_)
SumSizes(d) == IF d = <<>> THEN 0 ELSE Len(d[1].items) + SumSizes(Tail(d))

InitNotes ==
    /\ commits = <<>>
    /\ categorized_commits = <<>>
    /\ breaking_changes = <<>>
    /\ lines = <<>>
    /\ summary = NoSummary
    /\ calls = 0
    /\ IdleRun /\ IdleVersion /\ IdleClassify /\ IdleAggregate

\* the commit lists the next get_commits may answer within the bounds
NextCommitLists == SeqsUpTo(NotesCommits, MaxCategorized - SumSizes(categorized_commits))

\* generator.categorize_commits()
CategorizeCommits ==
    /\ calls < MaxCalls
    /\ \E cs \in NextCommitLists :
          LET r == categorize_commits(cs, categorized_commits, breaking_changes)
          IN  /\ commits' = cs
              /\ categorized_commits' = r.categorized
              /\ breaking_changes' = r.breaking
    /\ calls' = calls + 1
    /\ lines' = <<>> /\ summary' = NoSummary
    /\ UNCHANGED <<runVars, versionVars, classifyVars, aggregateVars>>

\* generator.generate_markdown(version, github_format)
GenerateMarkdown ==
    /\ calls < MaxCalls
    /\ \E cs \in NextCommitLists :
          LET r == categorize_commits(cs, categorized_commits, breaking_changes)
          IN  /\ commits' = cs
              /\ categorized_commits' = r.categorized
              /\ breaking_changes' = r.breaking
              /\ \E version \in VersionLabels, github_format \in BOOLEAN :
                    lines' = generate_markdown(version, github_format, commits',
                                               categorized_commits', breaking_changes')
    /\ calls' = calls + 1
    /\ summary' = NoSummary
    /\ UNCHANGED <<runVars, versionVars, classifyVars, aggregateVars>>

\* generator.generate_summary_json(version)
GenerateSummaryJson ==
    /\ \E version \in VersionLabels :
          summary' = generate_summary_json(version, commits, categorized_commits, breaking_changes)
    /\ lines' = <<>>
    /\ UNCHANGED <<commits, categorized_commits, breaking_changes, calls>>
    /\ UNCHANGED <<runVars, versionVars, classifyVars, aggregateVars>>

NextNotes == CategorizeCommits \/ GenerateMarkdown \/ GenerateSummaryJson
SpecNotes == InitNotes /\ [][NextNotes]_vars

----------------------------------------------------------------------------
\* The buckets of the categorization against the commits categorized.

RECURSIVE SumCounts(_)
SumCounts(cc) == IF cc = <<>> THEN 0 ELSE cc[1].count + SumCounts(Tail(cc))

\* C2: after any number of categorizations on one generator, the sizes of the buckets
\* add up to the number of input commits, and in the summary the commit_counts add up
\* to total_commits.
C2_BucketsSumToCommits ==
    /\ calls > 0 => SumSizes(categorized_commits) = Len(commits)
    /\ summary # NoSummary => SumCounts(summary.commit_counts) = summary.total_commits

\* the fixed Category enumeration
FixedCategories ==
    {<<"f","e","a","t">>, <<"f","i","x">>, <<"d","o","c","s">>, <<"s","t","y","l","e">>, <<"r","e","f","a","c","t","o","r">>, <<"t","e","s","t">>, <<"c","h","o","r","e">>, <<"c","i">>,
     <<"p","e","r","f">>, <<"b","u","i","l","d">>, <<"r","e","v","e","r","t">>, <<"o","t","h","e","r">>}

\* the category of a subject: its type token in lower case when the subject has a
\* conventional header and the token names a fixed category, other otherwise
HasHeader(m) ==
    \E n \in 1..Len(m) :
        /\ \A i \in 1..n : IsAlpha(m[i])
        /\ \/ At(m, n + 1, ":")
           \/ At(m, n + 1, "!") /\ At(m, n + 2, ":")
           \/ /\ At(m, n + 1, "(")
              /\ \E j \in (n + 2)..Len(m) :
                    /\ m[j] = ")"
                    /\ \A k \in (n + 2)..(j - 1) : m[k] # ")"
                    /\ \/ At(m, j + 1, ":")
                       \/ At(m, j + 1, "!") /\ At(m, j + 2, ":")
CategoryOf(m) ==
    IF HasHeader(m) /\ lower(SubSeq(m, 1, AlphaEnd(m, 1) - 1)) \in FixedCategories
    THEN lower(SubSeq(m, 1, AlphaEnd(m, 1) - 1))
    ELSE <<"o","t","h","e","r">>

\* C3: every key of categorized_commits is one of the twelve fixed categories, and a
\* commit with a conventional header is in the bucket of its lower-cased type token,
\* or in other when the token names no fixed category.
C3_KeysAreFixedCategories ==
    /\ \A i \in DOMAIN categorized_commits : categorized_commits[i].key \in FixedCategories
    /\ \A i \in DOMAIN commits :
          /\ HasKey(categorized_commits, CategoryOf(commits[i][2]))
          /\ \E j \in DOMAIN Items(categorized_commits, CategoryOf(commits[i][2])) :
                Items(categorized_commits, CategoryOf(commits[i][2]))[j]
                    = parse_conventional_commit(commits[i][2]).formatted

----------------------------------------------------------------------------
\* The Changes section of the text of generate_markdown, read back from its lines.

\* the rendering priority of the categories, with their labels
PriorityOrder ==
    << Category(<<"f","e","a","t">>, <<"N","e","w"," ","F","e","a","t","u","r","e","s">>), Category(<<"f","i","x">>, <<"B","u","g"," ","F","i","x","e","s">>),
       Category(<<"p","e","r","f">>, <<"P","e","r","f","o","r","m","a","n","c","e">>), Category(<<"d","o","c","s">>, <<"D","o","c","u","m","e","n","t","a","t","i","o","n">>),
       Category(<<"r","e","f","a","c","t","o","r">>, <<"C","o","d","e"," ","R","e","f","a","c","t","o","r","i","n","g">>), Category(<<"t","e","s","t">>, <<"T","e","s","t","s">>),
       Category(<<"c","i">>, <<"C","I","/","C","D">>), Category(<<"b","u","i","l","d">>, <<"B","u","i","l","d"," ","S","y","s","t","e","m">>),
       Category(<<"c","h","o","r","e">>, <<"M","a","i","n","t","e","n","a","n","c","e">>), Category(<<"s","t","y","l","e">>, <<"C","o","d","e"," ","S","t","y","l","e">>),
       Category(<<"r","e","v","e","r","t">>, <<"R","e","v","e","r","t","s">>), Category(<<"o","t","h","e","r">>, <<"O","t","h","e","r"," ","C","h","a","n","g","e","s">>) >>

StartsWith(s, prefix) == Len(s) >= Len(prefix) /\ SubSeq(s, 1, Len(prefix)) = prefix

\* the first line that reads "## Changes"
ChangesAt(ls) == Min({i \in DOMAIN ls : ls[i] = <<"#","#"," ","C","h","a","n","g","e","s">>})

\* the subsections from line i on: a "### label" line opens one, a "- text" line adds
\* an entry to the open one, the "---" of the footer ends the section
RECURSIVE ReadSections(_, _, _)
ReadSections(ls, i, acc) ==
    IF i > Len(ls) \/ ls[i] = <<"-","-","-">> THEN acc
    ELSE IF StartsWith(ls[i], <<"#","#","#"," ">>)
    THEN ReadSections(ls, i + 1, Append(acc, [label |-> From(ls[i], 5), items |-> <<>>]))
    ELSE IF StartsWith(ls[i], <<"-"," ">>) /\ acc # <<>>
    THEN ReadSections(ls, i + 1,
             [acc EXCEPT ![Len(acc)].items = Append(@, From(ls[i], 3))])
    ELSE ReadSections(ls, i + 1, acc)

ChangesSections(ls) == ReadSections(ls, ChangesAt(ls) + 1, <<>>)

\* the descriptions of the commits cs[i..] whose bucket key is key, in commit order
RECURSIVE DescriptionsOf(_, _, _)
DescriptionsOf(cs, i, key) ==
    IF i > Len(cs) THEN <<>>
    ELSE (IF parse_conventional_commit(cs[i][2]).type = key
          THEN <<parse_conventional_commit(cs[i][2]).formatted>>
          ELSE <<>>)
         \o DescriptionsOf(cs, i + 1, key)

\* the subsections the buckets call for, over PriorityOrder[i..]
RECURSIVE SectionsDue(_, _)
SectionsDue(categorized, i) ==
    IF i > Len(PriorityOrder) THEN <<>>
    ELSE (IF HasKey(categorized, PriorityOrder[i].key)
          THEN <<[label |-> PriorityOrder[i].label,
                  items |-> Items(categorized, PriorityOrder[i].key)]>>
          ELSE <<>>)
         \o SectionsDue(categorized, i + 1)

\* how often x occurs among the entries of the subsections
RECURSIVE Occurrences(_, _)
Occurrences(secs, x) ==
    IF secs = <<>> THEN 0
    ELSE Cardinality({j \in DOMAIN secs[1].items : secs[1].items[j] = x})
         + Occurrences(Tail(secs), x)

\* C4: the Changes section has exactly one subsection for each non-empty bucket, in
\* the priority order, each listing the bucket's descriptions in commit order; every
\* input commit's description appears exactly once under Changes.
C4_ChangesListsEveryBucketOnce ==
    lines # <<>> =>
        LET secs == ChangesSections(lines)
        IN  /\ Len(secs) = Len(categorized_commits)
            /\ secs = SectionsDue(categorized_commits, 1)
            /\ \A i \in DOMAIN categorized_commits :
                  categorized_commits[i].items
                      = DescriptionsOf(commits, 1, categorized_commits[i].key)
            /\ \A i \in DOMAIN commits :
                  Occurrences(secs, parse_conventional_commit(commits[i][2]).formatted)
                      = Cardinality({j \in DOMAIN commits :
                            parse_conventional_commit(commits[j][2]).formatted
                                = parse_conventional_commit(commits[i][2]).formatted})

----------------------------------------------------------------------------
\* The breaking list of categorize_commits.

\* the subject is marked breaking for the release notes: "!" before the colon of its
\* header, or the exact text BREAKING CHANGE anywhere in it
MarkedBreaking(m) ==
    \/ BangBeforeColon(m)
    \/ \E i \in 1..Len(m) :
          /\ i + Len(BREAKING_CHANGE) - 1 <= Len(m)
          /\ \A j \in 1..Len(BREAKING_CHANGE) : m[i + j - 1] = BREAKING_CHANGE[j]

\* the descriptions of the commits cs[i..] that are marked breaking, in commit order
RECURSIVE BreakingOf(_, _)
BreakingOf(cs, i) ==
    IF i > Len(cs) THEN <<>>
    ELSE (IF MarkedBreaking(cs[i][2])
          THEN <<parse_conventional_commit(cs[i][2]).formatted>>
          ELSE <<>>)
         \o BreakingOf(cs, i + 1)

\* the bucket of key, empty when the dict has no such key
Bucket(d, key) == IF HasKey(d, key) THEN Items(d, key) ELSE <<>>

\* what one categorization of the commits cs adds to the object
CategorizationAdds(cs) ==
    /\ breaking_changes' = breaking_changes \o BreakingOf(cs, 1)
    /\ \A i \in DOMAIN cs :
          LET key == parse_conventional_commit(cs[i][2]).type
          IN  Bucket(categorized_commits', key)
                  = Bucket(categorized_commits, key) \o DescriptionsOf(cs, 1, key)
    /\ \A i \in DOMAIN cs :
          cs[i][2] = N_featBang =>
              /\ parse_conventional_commit(cs[i][2]).type = <<"f","e","a","t">>
              /\ \E j \in DOMAIN breaking_changes' :
                    breaking_changes'[j] = <<"a","p","i",":"," ","r","e","m","o","v","e"," ","l","e","g","a","c","y"," ","e","n","d","p","o","i","n","t">>
              /\ \E j \in DOMAIN Bucket(categorized_commits', <<"f","e","a","t">>) :
                    Bucket(categorized_commits', <<"f","e","a","t">>)[j] = <<"a","p","i",":"," ","r","e","m","o","v","e"," ","l","e","g","a","c","y"," ","e","n","d","p","o","i","n","t">>

\* C10: a categorization appends a commit's rendered description to the breaking list
\* if and only if the commit's header has "!" before the colon or its message holds
\* the exact text BREAKING CHANGE, and it appends the description to the commit's
\* bucket in either case; `feat(api)!: remove legacy endpoint` lands in the feat
\* bucket and in the breaking list as `api: remove legacy endpoint`.
C10_BreakingListFollowsMarkers ==
    [][calls' = calls + 1 => CategorizationAdds(commits')]_vars

\* the example commit was categorized: it is in the feat bucket and in the breaking
\* list, next to a commit with a lower-case marker that is in neither
C10_Witness ==
    /\ calls = 1
    /\ commits = <<<<<<"c","0","f","f","e","e">>, N_featBang>>, <<<<"c","0","f","f","e","e">>, N_docs>>>>
    /\ breaking_changes = <<<<"a","p","i",":"," ","r","e","m","o","v","e"," ","l","e","g","a","c","y"," ","e","n","d","p","o","i","n","t">>>>
    /\ Bucket(categorized_commits, <<"f","e","a","t">>) = <<<<"a","p","i",":"," ","r","e","m","o","v","e"," ","l","e","g","a","c","y"," ","e","n","d","p","o","i","n","t">>>>
    /\ Bucket(categorized_commits, <<"d","o","c","s">>) = <<<<"b","r","e","a","k","i","n","g"," ","c","h","a","n","g","e">>>>

----------------------------------------------------------------------------
\* The string form of a SemanticVersion, read back.

\* C11: for every string the SemanticVersion parser accepts, leading zeros and
\* prereleases included, parsing the string form of the parsed value gives a value
\* with the same major, minor, patch and prerelease, equal to the parsed value.
C11_StringFormRoundTrips ==
    v_reparsed.ok =>
        /\ v_reparsed.major = v_version.major
        /\ v_reparsed.minor = v_version.minor
        /\ v_reparsed.patch = v_version.patch
        /\ v_reparsed.prerelease = v_version.prerelease
        /\ SemanticVersion_eq(v_reparsed, v_version)

\* a version written with leading zeros and a prerelease was printed and read back
C11_Witness ==
    /\ v_input = <<"0","1",".","0","0","7",".","9","9","-","r","c",".","1">>
    /\ v_reparsed.ok
    /\ SemanticVersion_str(v_version) = <<"1",".","7",".","9","9","-","r","c",".","1">>
    /\ v_reparsed.major = 1 /\ v_reparsed.minor = 7 /\ v_reparsed.patch = 99
    /\ v_reparsed.prerelease = <<"r","c",".","1">>

----------------------------------------------------------------------------
\* The summary section of the text of generate_markdown, read back from its lines.

\* the text is in full mode: it opens with the title
FullMode(ls) == ls # <<>> /\ StartsWith(ls[1], <<"#"," ","R","e","l","e","a","s","e"," ","N","o","t","e","s"," ","-"," ">>)

\* the lines of the summary section: after "## Summary", up to the next "## " line
SummaryAt(ls) == Min({i \in DOMAIN ls : ls[i] = <<"#","#"," ","S","u","m","m","a","r","y">>})
SummaryEnd(ls) == Min({i \in DOMAIN ls : i > SummaryAt(ls) /\ StartsWith(ls[i], <<"#","#"," ">>)})
SummaryRange(ls) == (SummaryAt(ls) + 1)..(SummaryEnd(ls) - 1)

\* the positions of the count lines and of the line with the total
CountLinesAt(ls) == {i \in SummaryRange(ls) : StartsWith(ls[i], <<"-"," ">>)}
TotalAt(ls) == {i \in SummaryRange(ls) : StartsWith(ls[i], <<"*","*">>)}

\* the count lines in the order of the text
RECURSIVE CountLines(_, _)
CountLines(ls, i) ==
    IF i >= SummaryEnd(ls) THEN <<>>
    ELSE (IF StartsWith(ls[i], <<"-"," ">>) THEN <<ls[i]>> ELSE <<>>) \o CountLines(ls, i + 1)

\* the count lines the buckets call for, over order[i..]
RECURSIVE CountLinesDue(_, _, _)
CountLinesDue(categorized, order, i) ==
    IF i > Len(order) THEN <<>>
    ELSE (IF HasKey(categorized, order[i].key)
          THEN << <<"-"," ">> \o order[i].label \o <<":"," ">>
                  \o str(Len(Items(categorized, order[i].key))) \o <<" ","c","o","m","m","i","t","s">> >>
          ELSE <<>>)
         \o CountLinesDue(categorized, order, i + 1)

\* the categories in the order they are declared in, other last
DeclarationOrder ==
    << Category(<<"f","e","a","t">>, <<"N","e","w"," ","F","e","a","t","u","r","e","s">>), Category(<<"f","i","x">>, <<"B","u","g"," ","F","i","x","e","s">>),
       Category(<<"d","o","c","s">>, <<"D","o","c","u","m","e","n","t","a","t","i","o","n">>), Category(<<"s","t","y","l","e">>, <<"C","o","d","e"," ","S","t","y","l","e">>),
       Category(<<"r","e","f","a","c","t","o","r">>, <<"C","o","d","e"," ","R","e","f","a","c","t","o","r","i","n","g">>), Category(<<"t","e","s","t">>, <<"T","e","s","t","s">>),
       Category(<<"c","h","o","r","e">>, <<"M","a","i","n","t","e","n","a","n","c","e">>), Category(<<"c","i">>, <<"C","I","/","C","D">>),
       Category(<<"p","e","r","f">>, <<"P","e","r","f","o","r","m","a","n","c","e">>), Category(<<"b","u","i","l","d">>, <<"B","u","i","l","d"," ","S","y","s","t","e","m">>),
       Category(<<"r","e","v","e","r","t">>, <<"R","e","v","e","r","t","s">>), Category(<<"o","t","h","e","r">>, <<"O","t","h","e","r"," ","C","h","a","n","g","e","s">>) >>

\* the line with the total names the number of input commits
TotalNamesCommits(ls) ==
    /\ Cardinality(TotalAt(ls)) = 1
    /\ \A i \in TotalAt(ls) :
          StartsWith(ls[i], <<"*","*">> \o str(Len(commits)) \o <<" ","c","o","m","m","i","t","s","*","*">>)

\* C12 as stated: in full mode the summary lists one count line per non-empty
\* category in the priority order (feature > fix > performance > docs > ...), omits
\* the empty categories, and gives the total commit count after those lines.
C12_SummaryInPriorityOrderTotalLast ==
    FullMode(lines) =>
        /\ CountLines(lines, SummaryAt(lines) + 1)
              = CountLinesDue(categorized_commits, PriorityOrder, 1)
        /\ TotalNamesCommits(lines)
        /\ \A i \in TotalAt(lines) : \A j \in CountLinesAt(lines) : i > j

\* C12: in full mode the summary gives the total commit count first and then lists
\* one count line per fixed category with a non-empty bucket, in the order the
\* categories are declared in (feat, fix, docs, style, refactor, test, chore, ci,
\* perf, build, revert, then other), with no line for an empty category.
C12_SummaryInDeclarationOrderTotalFirst ==
    FullMode(lines) =>
        /\ CountLines(lines, SummaryAt(lines) + 1)
              = CountLinesDue(categorized_commits, DeclarationOrder, 1)
        /\ TotalNamesCommits(lines)
        /\ \A i \in TotalAt(lines) : \A j \in CountLinesAt(lines) : i < j

\* a performance commit and a documentation commit were summarized: the count line of
\* documentation comes first, after the total
C12_Witness ==
    /\ FullMode(lines)
    /\ commits = <<<<<<"c","0","f","f","e","e">>, N_perf>>, <<<<"c","0","f","f","e","e">>, N_docs>>>>
    /\ calls = 1
    /\ CountLines(lines, SummaryAt(lines) + 1)
          = <<<<"-"," ","D","o","c","u","m","e","n","t","a","t","i","o","n",":"," ","1"," ","c","o","m","m","i","t","s">>, <<"-"," ","P","e","r","f","o","r","m","a","n","c","e",":"," ","1"," ","c","o","m","m","i","t","s">>>>
    /\ \A i \in TotalAt(lines) : \A j \in CountLinesAt(lines) : i < j

====
